---- MODULE Spec2Model ----
(***************************************************************************)
(* IntelligentAgent.py: a 2048 player.  getMove runs an iterative          *)
(* deepening search; maximize and minimize (the chance layer) recurse      *)
(* into each other with alpha-beta pruning and stop cooperatively when     *)
(* the wall clock passes playerMoveTimeLimit.                              *)
(*                                                                         *)
(* The recursion is modelled with an explicit call stack, one frame per    *)
(* active call, and boards live in a heap of objects addressed by          *)
(* reference, so that aliasing and in-place mutation can be observed.      *)
(* The wall clock is a counter that may advance between any two steps.     *)
(*                                                                         *)
(* Arithmetic.  Utilities are Python floats in the source.  Here the four  *)
(* heuristic weights are fixed-point numbers in ten-thousandths and a      *)
(* utility is an exact integer split in two limbs (TLC's integers have 32  *)
(* bits and the snake weights reach 4^15), ordered as the integers are.    *)
(***************************************************************************)
EXTENDS Integers, Sequences, FiniteSets, TLC

(***************************************************************************)
(* Bounds of the model.                                                    *)
(***************************************************************************)
\* the deepest iteration getMove starts; past it only the clock advances
MaxDepth == 4

(***************************************************************************)
(* Program constants.                                                      *)
(***************************************************************************)
\* grid.size of the 4x4 game, the dimension of snakeShapedWeights
size == 4
\* playerMoveTimeLimit = 0.2, in tenths of a second
playerMoveTimeLimit == 2
\* the four heuristic weights, in ten-thousandths
snakeWeight == 1597
smoothnessWeight == 23089
emptyCellsWeight == 24103
maxInCornerWeight == 68326

\* possibleTileProbabilities: the tile values, in the order they are tried
possibleTileProbabilities == <<2, 4>>

\* snakeShapedWeights[x][y] = 4 ^ snakeExponent[x][y]
snakeExponent ==
  << <<15, 14, 13, 12>>,
     << 8,  9, 10, 11>>,
     << 7,  6,  5,  4>>,
     << 0,  1,  2,  3>> >>

snakeShapedWeights(x, y) == 4 ^ snakeExponent[x][y]

\* Python's None, for a move
None == -1

\* the moves, in the order the Grid enumerates them: UP, DOWN, LEFT, RIGHT
UP == 0
DOWN == 1
LEFT == 2
RIGHT == 3
vecIndex == <<UP, DOWN, LEFT, RIGHT>>

Idx == 1..size

(***************************************************************************)
(* Utilities: <<k, hi, lo>>, k = -1 for float('-inf'), 1 for float('inf'), *)
(* 0 for the finite value hi * LimbBase + lo with 0 <= lo < LimbBase.      *)
(***************************************************************************)
LimbBase == snakeWeight * (4 ^ 8)

NegInf == <<-1, 0, 0>>
PosInf == <<1, 0, 0>>

Finite(u) == u[1] = 0

\* u < v
Less(u, v) ==
  \/ u[1] < v[1]
  \/ u[1] = v[1] /\ u[2] < v[2]
  \/ u[1] = v[1] /\ u[2] = v[2] /\ u[3] < v[3]

\* u <= v
LessEq(u, v) == ~Less(v, u)

\* Python's max(u, v) and min(u, v)
Max(u, v) == IF Less(u, v) THEN v ELSE u
Min(u, v) == IF Less(v, u) THEN v ELSE u

Abs(n) == IF n < 0 THEN -n ELSE n

(***************************************************************************)
(* The Grid collaborator.  A board is a tuple of rows, g[x][y] with x the  *)
(* row and y the column, 0 for an empty cell.                              *)
(***************************************************************************)
\* s[k] + ... + s[n]
RECURSIVE SumFrom(_, _, _)
SumFrom(s, k, n) == IF k > n THEN 0 ELSE s[k] + SumFrom(s, k + 1, n)

\* the cells <<x, y>>, row by row: for x in range(size): for y in range(size)
CellAt(k) == <<((k - 1) \div size) + 1, ((k - 1) % size) + 1>>

Reverse(s) == [k \in 1..Len(s) |-> s[Len(s) + 1 - k]]

Transpose(g) == [x \in Idx |-> [y \in Idx |-> g[y][x]]]

\* Grid.merge: equal neighbours of a packed line merge once, front first
RECURSIVE merge(_)
merge(cells) ==
  IF Len(cells) <= 1 THEN cells
  ELSE IF cells[1] = cells[2]
       THEN <<2 * cells[1]>> \o merge(SubSeq(cells, 3, Len(cells)))
       ELSE <<cells[1]>> \o merge(Tail(cells))

\* one line slid towards its first cell: pack, merge, pad with zeros
slide(line) ==
  LET cells == merge(SelectSeq(line, LAMBDA v : v # 0))
  IN  [k \in Idx |-> IF k <= Len(cells) THEN cells[k] ELSE 0]

\* Grid.move(dir) on a copy: the board after sliding and merging
move(g, dir) ==
  CASE dir = LEFT  -> [x \in Idx |-> slide(g[x])]
    [] dir = RIGHT -> [x \in Idx |-> Reverse(slide(Reverse(g[x])))]
    [] dir = UP    -> Transpose([x \in Idx |-> slide(Transpose(g)[x])])
    [] dir = DOWN  ->
         Transpose([x \in Idx |-> Reverse(slide(Reverse(Transpose(g)[x])))])

\* Grid.getAvailableMoves: <<move, resulting board>> for every move that
\* changes the board, in the order of vecIndex
getAvailableMoves(g) ==
  LET all == [k \in 1..Len(vecIndex) |-> <<vecIndex[k], move(g, vecIndex[k])>>]
  IN  SelectSeq(all, LAMBDA p : p[2] # g)

\* Grid.canMove: an empty cell, or two equal neighbours
canMove(g) ==
  \/ \E x, y \in Idx : g[x][y] = 0
  \/ \E x, y \in Idx : /\ x < size
                       /\ g[x][y] = g[x + 1][y]
  \/ \E x, y \in Idx : /\ y < size
                       /\ g[x][y] = g[x][y + 1]

\* Grid.getAvailableCells: the empty cells, row by row
getAvailableCells(g) ==
  LET all == [k \in 1..(size * size) |-> CellAt(k)]
  IN  SelectSeq(all, LAMBDA c : g[c[1]][c[2]] = 0)

\* Grid.setCellValue on the board object g
setCellValue(g, cell, value) == [g EXCEPT ![cell[1]][cell[2]] = value]

(***************************************************************************)
(* The heuristics and the evaluation function.                             *)
(***************************************************************************)
\* calcSnakeAdherence: the sum of tile * 4^exponent, as <<hi, lo>> standing
\* for hi * 4^8 + lo (the cells of exponent >= 8 go to hi)
calcSnakeAdherence(g) ==
  << SumFrom([k \in 1..(size * size) |->
                LET x == CellAt(k)[1]
                    y == CellAt(k)[2]
                IN  IF snakeExponent[x][y] >= 8
                    THEN g[x][y] * (4 ^ (snakeExponent[x][y] - 8))
                    ELSE 0],
             1, size * size),
     SumFrom([k \in 1..(size * size) |->
                LET x == CellAt(k)[1]
                    y == CellAt(k)[2]
                IN  IF snakeExponent[x][y] < 8
                    THEN g[x][y] * snakeShapedWeights(x, y)
                    ELSE 0],
             1, size * size) >>

\* calcSmoothness: minus the gaps between a cell and its neighbours below
\* and to the right
calcSmoothness(g) ==
  SumFrom([k \in 1..(size * size) |->
             LET x == CellAt(k)[1]
                 y == CellAt(k)[2]
             IN  (IF x < size THEN -Abs(g[x][y] - g[x + 1][y]) ELSE 0)
               + (IF y < size THEN -Abs(g[x][y] - g[x][y + 1]) ELSE 0)],
          1, size * size)

\* getEmptyCells: len(grid.getAvailableCells())
getEmptyCells(g) == Len(getAvailableCells(g))

\* max(cell for row in grid.map for cell in row)
maxTileOf(g) ==
  CHOOSE m \in {g[x][y] : x, y \in Idx} : \A x, y \in Idx : g[x][y] <= m

\* mutant: the penalty is the largest tile alone
checkMaxTileInCornerNoGap(g) ==
  LET maxTile == maxTileOf(g)
      topLeftTile == g[1][1]
  IN  IF topLeftTile = maxTile THEN maxTile ELSE -maxTile

checkMaxTileInCorner(g) ==
  LET maxTile == maxTileOf(g)
      topLeftTile == g[1][1]
  IN  IF topLeftTile = maxTile THEN maxTile
      ELSE -Abs(maxTile - topLeftTile)

\* evaluate: the weighted sum, in ten-thousandths, as a utility
evaluate(g) ==
  LET snake == calcSnakeAdherence(g)
      low == snakeWeight * snake[2]
             + smoothnessWeight * calcSmoothness(g)
             + emptyCellsWeight * getEmptyCells(g)
             + maxInCornerWeight * checkMaxTileInCorner(g)
  IN  <<0, snake[1] + (low \div LimbBase), low % LimbBase>>

\* getCellSnakeImportance
getCellSnakeImportance(g, cell) == snakeShapedWeights(cell[1], cell[2])

\* sorted(cells, key, reverse=True): a stable sort, descending by key.
\* The cell at index j lands after the cells of greater key and after the
\* cells of equal key that precede it.
sortedDesc(g, cells) ==
  LET n == Len(cells)
      key(j) == getCellSnakeImportance(g, cells[j])
      place(j) == 1 + Cardinality({k \in 1..n :
                                     \/ key(k) > key(j)
                                     \/ key(k) = key(j) /\ k < j})
  IN  [i \in 1..n |-> cells[CHOOSE j \in 1..n : place(j) = i]]

\* Python's seq[:n]
Prefix(s, n) == SubSeq(s, 1, IF Len(s) < n THEN Len(s) ELSE n)

\* mutant: the empty cells are not sorted before the first 4 are taken
emptyCellsUnsorted(g) == Prefix(getAvailableCells(g), 4)

\* minimize's candidate cells: the 4 most important empty cells
emptyCells(g) == Prefix(sortedDesc(g, getAvailableCells(g)), 4)

(***************************************************************************)
(* The decisions of getMove, maximize and minimize.                        *)
(***************************************************************************)
\* mutant: the loop test never fails (while True)
LoopConditionAlways(el) == TRUE

\* getMove's loop test: time.time() - moveStartTime < playerMoveTimeLimit
LoopCondition(el) == el < playerMoveTimeLimit

\* mutant: only the first move found is kept (if bestMove is None)
RetainMoveFirst(mv, best) == IF best = None THEN mv ELSE best

\* getMove keeps the move of an iteration unless it is None
RetainMove(mv, best) == IF mv # None THEN mv ELSE best

\* mutant: the clock is read before the terminal test
maximizeEntryClockFirst(g, d, el) ==
  IF el >= playerMoveTimeLimit THEN "timeout"
  ELSE IF d = 0 \/ ~canMove(g) THEN "leaf"
  ELSE "expand"

\* what a call of maximize does first: the terminal test, then the clock
maximizeEntry(g, d, el) ==
  IF d = 0 \/ ~canMove(g) THEN "leaf"
  ELSE IF el >= playerMoveTimeLimit THEN "timeout"
  ELSE "expand"

\* mutant: minimize never reads the clock
minimizeEntryNoClock(g, d, el) ==
  IF d = 0 \/ ~canMove(g) THEN "leaf" ELSE "expand"

\* what a call of minimize does first: the terminal test, then the clock
minimizeEntry(g, d, el) ==
  IF d = 0 \/ ~canMove(g) THEN "leaf"
  ELSE IF el >= playerMoveTimeLimit THEN "timeout"
  ELSE "expand"

\* mutant: a tie replaces the best move too (>= for >)
MaxImprovesOrTies(u, best) == LessEq(best, u)

\* maximize replaces its best move: minChanceUtility > maxStateUtility
MaxImproves(u, best) == Less(best, u)

\* alpha = max(alpha, minChanceUtility)
NewAlpha(alpha, u) == Max(alpha, u)

\* minStateUtility = min(minStateUtility, childMaxUtility)
NewMinUtility(best, u) == Min(best, u)

\* beta = min(beta, childMaxUtility)
NewBeta(beta, u) == Min(beta, u)

\* mutant: the cutoff test is inverted (alpha < beta)
CutoffInverted(alpha, beta) == Less(alpha, beta)

\* the cutoff test of both layers: beta <= alpha
Cutoff(alpha, beta) == LessEq(beta, alpha)

\* Grid.clone on the heap h: a new object holding a copy of object g;
\* <<the heap after, the reference of the copy>>
clone(h, g) == <<Append(h, h[g]), Len(h) + 1>>

\* mutant: no copy is made (child = grid)
minimizeChildShared(h, g) == <<h, g>>

\* minimize's child = grid.clone()
minimizeChild(h, g) == clone(h, g)

(***************************************************************************)
(* The state.                                                              *)
(***************************************************************************)
VARIABLES
  inputGrid,  \* the caller's board as it was when getMove was called
  heap,       \* the live board objects; heap[1] is the caller's board
  stack,      \* the active calls of maximize and minimize, innermost last
  pc,         \* getMove: "loop", "call", "except" or "done"
  depth,      \* getMove's depth
  bestMove,   \* getMove's bestMove
  elapsed,    \* time.time() - moveStartTime, capped at the limit
  ret,        \* the value just returned by a call: <<>> or <<[util, move]>>
  cut         \* history: a loop of the running iteration ended on a cutoff
              \* with moves, cells or tiles left unexplored

vars == <<inputGrid, heap, stack, pc, depth, bestMove, elapsed, ret, cut>>

\* the boards getMove is called with
Boards ==
  { << <<2, 4, 2, 4>>, <<4, 2, 4, 2>>, <<2, 4, 2, 4>>, <<4, 2, 4, 2>> >>,
    << <<0, 0, 0, 0>>, <<0, 0, 0, 0>>, <<0, 0, 0, 0>>, <<0, 0, 0, 2>> >>,
    << <<2, 4, 2, 4>>, <<4, 2, 4, 2>>, <<2, 4, 8, 4>>, <<4, 2, 8, 2>> >>,
    << <<8, 4, 2, 0>>, <<2, 4, 2, 0>>, <<4, 2, 4, 2>>, <<2, 4, 2, 4>> >>,
    << <<2, 0, 0, 2>>, <<0, 4, 0, 0>>, <<0, 0, 4, 0>>, <<2, 0, 0, 8>> >>,
    << <<8, 4, 2, 2>>, <<4, 2, 4, 8>>, <<2, 8, 2, 4>>, <<0, 4, 0, 2>> >>,
    << <<4, 8, 4, 2>>, <<2, 0, 2, 4>>, <<4, 2, 0, 2>>, <<2, 4, 2, 8>> >>,
    << <<0, 2, 0, 0>>, <<0, 2, 0, 0>>, <<4, 0, 0, 4>>, <<0, 0, 0, 0>> >>,
    << <<0, 0, 0, 0>>, <<0, 0, 2, 0>>, <<0, 2, 0, 0>>, <<0, 0, 0, 0>> >>,
    << <<0, 0, 4, 0>>, <<2, 0, 0, 0>>, <<0, 0, 0, 0>>, <<0, 0, 0, 0>> >>,
    << <<4, 8, 4, 8>>, <<2, 4, 2, 4>>, <<4, 2, 4, 2>>, <<2, 4, 2, 4>> >> }

Frame(kind, g, alpha, beta, d, base) ==
  [kind |-> kind, g |-> g, alpha |-> alpha, beta |-> beta, depth |-> d,
   pc |-> "entry", kids |-> <<>>, i |-> 0, t |-> 0,
   best |-> NegInf, bestMove |-> None, base |-> base]

Top == stack[Len(stack)]
Pop == SubSeq(stack, 1, Len(stack) - 1)
SetTop(f) == [stack EXCEPT ![Len(stack)] = f]
Returned(u, mv) == <<[util |-> u, move |-> mv]>>

Init ==
  /\ inputGrid \in Boards
  /\ heap = <<inputGrid>>
  /\ stack = <<>>
  /\ pc = "loop"
  /\ depth = 1
  /\ bestMove = None
  /\ elapsed = 0
  /\ ret = <<>>
  /\ cut = FALSE

(***************************************************************************)
(* The wall clock.                                                         *)
(***************************************************************************)
Tick ==
  /\ pc # "done"
  /\ elapsed < playerMoveTimeLimit
  /\ elapsed' = elapsed + 1
  /\ UNCHANGED <<inputGrid, heap, stack, pc, depth, bestMove, ret>>
  /\ UNCHANGED cut

(***************************************************************************)
(* getMove.                                                                *)
(***************************************************************************)
\* the loop test passes: maximize(grid, -inf, inf, depth, moveStartTime)
StartIteration ==
  /\ pc = "loop"
  /\ LoopCondition(elapsed)
  /\ depth <= MaxDepth
  /\ stack' = <<Frame("max", 1, NegInf, PosInf, depth, Len(heap))>>
  /\ pc' = "call"
  /\ UNCHANGED <<inputGrid, heap, depth, bestMove, elapsed, ret>>
  /\ cut' = FALSE

\* the loop test fails: return bestMove
LoopExit ==
  /\ pc = "loop"
  /\ ~LoopCondition(elapsed)
  /\ pc' = "done"
  /\ UNCHANGED <<inputGrid, heap, stack, depth, bestMove, elapsed, ret>>
  /\ UNCHANGED cut

\* maximize returned: keep its move, go one deeper
IterationDone ==
  /\ pc = "call"
  /\ stack = <<>>
  /\ ret # <<>>
  /\ bestMove' = RetainMove(ret[1].move, bestMove)
  /\ depth' = depth + 1
  /\ ret' = <<>>
  /\ pc' = "loop"
  /\ UNCHANGED <<inputGrid, heap, stack, elapsed>>
  /\ cut' = FALSE

\* except TimeoutError: break, then return bestMove
Catch ==
  /\ pc = "except"
  /\ pc' = "done"
  /\ UNCHANGED <<inputGrid, heap, stack, depth, bestMove, elapsed, ret>>
  /\ UNCHANGED cut

(***************************************************************************)
(* maximize.                                                               *)
(***************************************************************************)
AtEntry(kind) ==
  /\ pc = "call"
  /\ stack # <<>>
  /\ Top.kind = kind
  /\ Top.pc = "entry"

\* the TimeoutError leaves every active call and reaches getMove
Raise ==
  /\ stack' = <<>>
  /\ heap' = SubSeq(heap, 1, 1)
  /\ ret' = <<>>
  /\ pc' = "except"
  /\ UNCHANGED <<inputGrid, depth, bestMove, elapsed>>
  /\ cut' = FALSE

\* return self.evaluate(grid), None
ReturnLeaf ==
  /\ ret' = Returned(evaluate(heap[Top.g]), None)
  /\ stack' = Pop
  /\ UNCHANGED <<inputGrid, heap, pc, depth, bestMove, elapsed>>
  /\ UNCHANGED cut

MaxLeaf ==
  /\ AtEntry("max")
  /\ maximizeEntry(heap[Top.g], Top.depth, elapsed) = "leaf"
  /\ ReturnLeaf

MaxTimeout ==
  /\ AtEntry("max")
  /\ maximizeEntry(heap[Top.g], Top.depth, elapsed) = "timeout"
  /\ Raise

\* the loop starts: getAvailableMoves builds the successor boards
MaxExpand ==
  /\ AtEntry("max")
  /\ maximizeEntry(heap[Top.g], Top.depth, elapsed) = "expand"
  /\ \E moves \in {getAvailableMoves(heap[Top.g])} :
         /\ heap' = heap \o [k \in 1..Len(moves) |-> moves[k][2]]
         /\ stack' = SetTop([Top EXCEPT
                        !.pc = "loop",
                        !.kids = [k \in 1..Len(moves) |->
                                    <<moves[k][1], Len(heap) + k>>],
                        !.i = 1,
                        !.best = NegInf,
                        !.bestMove = None])
  /\ UNCHANGED <<inputGrid, pc, depth, bestMove, elapsed, ret>>
  /\ UNCHANGED cut

\* self.chance(child, alpha, beta, depth - 1, moveStartTime)
MaxCall ==
  /\ pc = "call"
  /\ stack # <<>>
  /\ Top.kind = "max"
  /\ Top.pc = "loop"
  /\ stack' = Append(SetTop([Top EXCEPT !.pc = "wait"]),
                     Frame("min", Top.kids[Top.i][2], Top.alpha, Top.beta,
                           Top.depth - 1, Len(heap)))
  /\ UNCHANGED <<inputGrid, heap, pc, depth, bestMove, elapsed, ret>>
  /\ UNCHANGED cut

\* mutant: the utility is compared with alpha, not with maxStateUtility
MaxAfterAgainstAlpha(f, u) ==
  [f EXCEPT
     !.best = IF Less(f.alpha, u) THEN u ELSE f.best,
     !.bestMove = IF Less(f.alpha, u) THEN f.kids[f.i][1] ELSE f.bestMove,
     !.alpha = NewAlpha(f.alpha, u)]

\* the frame of maximize after the lines that follow the call of chance
MaxAfter(f, u) ==
  [f EXCEPT
     !.best = IF MaxImproves(u, f.best) THEN u ELSE f.best,
     !.bestMove = IF MaxImproves(u, f.best) THEN f.kids[f.i][1]
                  ELSE f.bestMove,
     !.alpha = NewAlpha(f.alpha, u)]

\* the loop of maximize ends: a cutoff, or no move is left
MaxLoopEnds(f) == Cutoff(f.alpha, f.beta) \/ f.i = Len(f.kids)

MaxResumed ==
  /\ pc = "call"
  /\ stack # <<>>
  /\ Top.kind = "max"
  /\ Top.pc = "wait"
  /\ ret # <<>>

\* chance returned and the loop goes on with the next move
MaxContinue ==
  /\ MaxResumed
  /\ LET f == MaxAfter(Top, ret[1].util)
     IN  /\ ~MaxLoopEnds(f)
         /\ stack' = SetTop([f EXCEPT !.i = f.i + 1, !.pc = "loop"])
  /\ ret' = <<>>
  /\ UNCHANGED <<inputGrid, heap, pc, depth, bestMove, elapsed>>
  /\ UNCHANGED cut

\* chance returned and the loop ends: return maxStateUtility, maxChildMove
MaxReturn ==
  /\ MaxResumed
  /\ LET f == MaxAfter(Top, ret[1].util)
     IN  /\ MaxLoopEnds(f)
         /\ ret' = Returned(f.best, f.bestMove)
         /\ heap' = SubSeq(heap, 1, f.base)
         /\ cut' = (cut \/ f.i < Len(f.kids))
  /\ stack' = Pop
  /\ UNCHANGED <<inputGrid, pc, depth, bestMove, elapsed>>

(***************************************************************************)
(* minimize (the chance layer).                                            *)
(***************************************************************************)
MinLeaf ==
  /\ AtEntry("min")
  /\ minimizeEntry(heap[Top.g], Top.depth, elapsed) = "leaf"
  /\ ReturnLeaf

MinTimeout ==
  /\ AtEntry("min")
  /\ minimizeEntry(heap[Top.g], Top.depth, elapsed) = "timeout"
  /\ Raise

\* the candidate cells are chosen; with none the loop is skipped and
\* minimize returns float('inf')
MinExpand ==
  /\ AtEntry("min")
  /\ minimizeEntry(heap[Top.g], Top.depth, elapsed) = "expand"
  /\ \E cells \in {emptyCells(heap[Top.g])} :
         IF cells = <<>>
         THEN /\ ret' = Returned(PosInf, None)
              /\ stack' = Pop
         ELSE /\ ret' = ret
              /\ stack' = SetTop([Top EXCEPT
                             !.pc = "loop",
                             !.kids = cells,
                             !.i = 1,
                             !.t = 1,
                             !.best = PosInf])
  /\ UNCHANGED <<inputGrid, heap, pc, depth, bestMove, elapsed>>
  /\ UNCHANGED cut

\* child = grid.clone(); child.setCellValue(cell, tileValue);
\* self.maximize(child, alpha, beta, depth - 1, moveStartTime)
MinCall ==
  /\ pc = "call"
  /\ stack # <<>>
  /\ Top.kind = "min"
  /\ Top.pc = "loop"
  /\ LET made == minimizeChild(heap, Top.g)
         h == made[1]
         child == made[2]
     IN  /\ heap' = [h EXCEPT ![child] =
                       setCellValue(h[child], Top.kids[Top.i],
                                    possibleTileProbabilities[Top.t])]
         /\ stack' = Append(SetTop([Top EXCEPT !.pc = "wait"]),
                            Frame("max", child, Top.alpha, Top.beta,
                                  Top.depth - 1, Len(h)))
  /\ UNCHANGED <<inputGrid, pc, depth, bestMove, elapsed, ret>>
  /\ UNCHANGED cut

\* the frame of minimize after the lines that follow the call of maximize
MinAfter(f, u) ==
  [f EXCEPT
     !.best = NewMinUtility(f.best, u),
     !.beta = NewBeta(f.beta, u)]

\* both loops of minimize end: a cutoff, or no cell and no tile is left
MinLoopEnds(f) ==
  \/ Cutoff(f.alpha, f.beta)
  \/ f.i = Len(f.kids) /\ f.t = Len(possibleTileProbabilities)

MinResumed ==
  /\ pc = "call"
  /\ stack # <<>>
  /\ Top.kind = "min"
  /\ Top.pc = "wait"
  /\ ret # <<>>

\* maximize returned and the loops go on: the next tile, or the next cell
MinContinue ==
  /\ MinResumed
  /\ LET f == MinAfter(Top, ret[1].util)
     IN  /\ ~MinLoopEnds(f)
         /\ stack' = SetTop(
              IF f.t < Len(possibleTileProbabilities)
              THEN [f EXCEPT !.t = f.t + 1, !.pc = "loop"]
              ELSE [f EXCEPT !.i = f.i + 1, !.t = 1, !.pc = "loop"])
         /\ heap' = SubSeq(heap, 1, f.base)
  /\ ret' = <<>>
  /\ UNCHANGED <<inputGrid, pc, depth, bestMove, elapsed>>
  /\ UNCHANGED cut

\* maximize returned and the loops end: return minStateUtility, None
MinReturn ==
  /\ MinResumed
  /\ LET f == MinAfter(Top, ret[1].util)
     IN  /\ MinLoopEnds(f)
         /\ ret' = Returned(f.best, None)
         /\ heap' = SubSeq(heap, 1, f.base)
         /\ cut' = (cut \/ ~(/\ f.i = Len(f.kids)
                              /\ f.t = Len(possibleTileProbabilities)))
  /\ stack' = Pop
  /\ UNCHANGED <<inputGrid, pc, depth, bestMove, elapsed>>

Step ==
  \/ StartIteration
  \/ LoopExit
  \/ IterationDone
  \/ Catch
  \/ MaxLeaf
  \/ MaxTimeout
  \/ MaxExpand
  \/ MaxCall
  \/ MaxContinue
  \/ MaxReturn
  \/ MinLeaf
  \/ MinTimeout
  \/ MinExpand
  \/ MinCall
  \/ MinContinue
  \/ MinReturn

Next == Tick \/ Step

Spec == Init /\ [][Next]_vars

\* neither the clock nor the interpreter stops while getMove runs: some
\* step is taken as long as one can be
FairSpec == Spec /\ WF_vars(Next)

(***************************************************************************)
(* The unpruned traversal: the same tree (same move order, same candidate  *)
(* cells, tiles 2 then 4, same leaf evaluation) searched without alpha     *)
(* and beta.  It is the reference of claims C1 and C8.                     *)
(***************************************************************************)
RECURSIVE unprunedMax(_, _), unprunedMin(_, _), FoldMax(_, _, _), FoldMin(_, _)

\* the best of the utilities us[k..], replaced on strict improvement only
FoldMax(us, k, acc) ==
  IF k > Len(us) THEN acc
  ELSE FoldMax(us, k + 1,
               IF Less(acc.util, us[k][2])
               THEN [util |-> us[k][2], move |-> us[k][1]]
               ELSE acc)

FoldMin(us, acc) ==
  IF us = <<>> THEN acc ELSE FoldMin(Tail(us), Min(acc, us[1]))

unprunedMax(g, d) ==
  IF d = 0 \/ ~canMove(g) THEN [util |-> evaluate(g), move |-> None]
  ELSE LET moves == getAvailableMoves(g)
       IN  FoldMax([k \in 1..Len(moves) |->
                      <<moves[k][1], unprunedMin(moves[k][2], d - 1)>>],
                   1, [util |-> NegInf, move |-> None])

unprunedMin(g, d) ==
  IF d = 0 \/ ~canMove(g) THEN evaluate(g)
  ELSE LET cells == emptyCells(g)
           n == Len(possibleTileProbabilities)
       IN  FoldMin([k \in 1..(Len(cells) * n) |->
                      unprunedMax(
                        setCellValue(g, cells[((k - 1) \div n) + 1],
                                     possibleTileProbabilities[((k - 1) % n) + 1]),
                        d - 1).util],
                   PosInf)

\* a depth iteration has just returned to getMove
IterationReturned == pc = "call" /\ stack = <<>> /\ ret # <<>>

\* a step in which the innermost call, one of maximize past its entry,
\* returns
MaxReturns == MaxResumed /\ pc' = "call" /\ Len(stack') < Len(stack)

\* the innermost call is one of maximize whose loop has ended: its next
\* step returns Returning.best and Returning.bestMove
MaxReturning == MaxResumed /\ MaxLoopEnds(MaxAfter(Top, ret[1].util))
Returning == MaxAfter(Top, ret[1].util)

\* the alpha the innermost call of maximize received
ReceivedAlpha ==
  IF Len(stack) = 1 THEN NegInf ELSE stack[Len(stack) - 1].alpha

\* the unpruned chance-layer utilities of the moves k.. of the innermost
\* call of maximize
RECURSIVE TrueUtilitiesFrom(_)
TrueUtilitiesFrom(k) ==
  IF k > Len(Top.kids) THEN <<>>
  ELSE <<unprunedMin(heap[Top.kids[k][2]], Top.depth - 1)>>
       \o TrueUtilitiesFrom(k + 1)

\* the index of the earliest of the largest utilities of us
EarliestBest(us) ==
  CHOOSE k \in 1..Len(us) :
    /\ \A j \in 1..Len(us) : LessEq(us[j], us[k])
    /\ \A j \in 1..(k - 1) : Less(us[j], us[k])

(***************************************************************************)
(* C1.  A depth iteration that is not timed out returns the utility and    *)
(* the move of the unpruned traversal of the same tree at that depth.      *)
(***************************************************************************)
C1_PrunedEqualsUnpruned ==
  IterationReturned => ret[1] = unprunedMax(inputGrid, depth)

\* an iteration of depth 3 or more returned after a cutoff skipped part of
\* the tree
C1_Witness ==
  /\ IterationReturned
  /\ depth >= 3
  /\ cut
  /\ ret[1].move # None

(***************************************************************************)
(* C2.  getMove never changes the caller's board, and setCellValue is      *)
(* applied only to a fresh copy: the board of a call of maximize made by   *)
(* the chance layer is an object no other active call refers to, it is     *)
(* the chance layer's board with the one tile added, and the boards        *)
(* getAvailableMoves produced stay what the move made them.                *)
(***************************************************************************)
\* the references the calls stack[1..k] hold
HeldRefs(k) ==
  {stack[j].g : j \in 1..k}
  \cup UNION {{stack[j].kids[i][2] : i \in 1..Len(stack[j].kids)} :
                j \in {j \in 1..k : stack[j].kind = "max"}}

C2_BoardNeverMutated ==
  /\ heap[1] = inputGrid
  /\ \A k \in 1..Len(stack) :
       LET f == stack[k]
       IN  /\ (f.kind = "max" /\ f.pc \in {"loop", "wait"}) =>
                \A j \in 1..Len(f.kids) :
                  heap[f.kids[j][2]] = move(heap[f.g], f.kids[j][1])
           /\ (f.kind = "min" /\ f.pc = "wait" /\ k < Len(stack)) =>
                LET child == stack[k + 1].g
                    cell == f.kids[f.i]
                IN  /\ child \notin ({1} \cup HeldRefs(k))
                    /\ heap[f.g][cell[1]][cell[2]] = 0
                    /\ heap[child] =
                         setCellValue(heap[f.g], cell,
                                      possibleTileProbabilities[f.t])

\* getMove has returned after iterations in which the chance layer set
\* tiles on copies
C2_Witness ==
  /\ pc = "done"
  /\ depth > 2
  /\ canMove(inputGrid)

(***************************************************************************)
(* C3, as claimed.  A depth iteration that returns when the elapsed time   *)
(* has reached the budget does not change the retained best move.          *)
(***************************************************************************)
C3_LateIterationDiscarded ==
  [][(IterationReturned /\ elapsed >= playerMoveTimeLimit)
       => bestMove' = bestMove]_vars

(***************************************************************************)
(* C3, amended.  The retained best move changes only when a depth          *)
(* iteration returns without signalling a timeout, and then it becomes     *)
(* that iteration's move (unless that is null), whatever the clock reads;  *)
(* a timed-out iteration leaves it alone; and while no iteration has       *)
(* returned it is null.                                                    *)
(***************************************************************************)
C3_LastReturnedIteration ==
  /\ [][IF IterationReturned /\ pc' = "loop"
        THEN bestMove' = (IF ret[1].move = None THEN bestMove
                          ELSE ret[1].move)
        ELSE bestMove' = bestMove]_vars
  /\ [](depth = 1 => bestMove = None)

\* an iteration returns a new move when the budget is already used up
C3_Witness ==
  /\ IterationReturned
  /\ elapsed >= playerMoveTimeLimit
  /\ ret[1].move # None
  /\ ret[1].move # bestMove
  /\ bestMove # None

(***************************************************************************)
(* C4.  On a board without a legal move every call of maximize returns     *)
(* (evaluate(board), null) at once: no call is made from it, no timeout    *)
(* is signalled, and bestMove stays null.                                  *)
(***************************************************************************)
C4_NoLegalMove ==
  ~canMove(inputGrid) =>
    /\ bestMove = None
    /\ pc # "except"
    /\ Len(stack) <= 1
    /\ stack # <<>> => Top.pc = "entry"
    /\ heap = <<inputGrid>>
    /\ ret # <<>> => ret[1] = [util |-> evaluate(inputGrid), move |-> None]

\* getMove has returned from a board without a legal move after several
\* depth iterations
C4_Witness ==
  /\ ~canMove(inputGrid)
  /\ pc = "done"
  /\ depth > 2

(***************************************************************************)
(* C5.  The cells the chance layer expands: every empty cell when there    *)
(* are at most 4, else the 4 of highest snake weight; in descending order  *)
(* of snake weight.                                                        *)
(***************************************************************************)
C5_CandidateCells ==
  \A k \in 1..Len(stack) :
    (stack[k].kind = "min" /\ stack[k].pc \in {"loop", "wait"}) =>
      LET g == heap[stack[k].g]
          cs == stack[k].kids
          empty == {c \in Idx \X Idx : g[c[1]][c[2]] = 0}
          chosen == {cs[i] : i \in 1..Len(cs)}
          W(c) == snakeShapedWeights(c[1], c[2])
      IN  /\ Len(cs) = (IF Cardinality(empty) <= 4
                        THEN Cardinality(empty) ELSE 4)
          /\ chosen \subseteq empty
          /\ \A i, j \in 1..Len(cs) : i < j => W(cs[i]) > W(cs[j])
          /\ \A c \in empty \ chosen : \A d \in chosen : W(c) < W(d)

\* the chance layer expands a board with more than 4 empty cells, some of
\* them heavier than an occupied cell
C5_Witness ==
  /\ stack # <<>>
  /\ Top.kind = "min"
  /\ Top.pc = "loop"
  /\ Len(getAvailableCells(heap[Top.g])) > 4
  /\ Top.kids # Prefix(getAvailableCells(heap[Top.g]), 4)

(***************************************************************************)
(* C6.  The corner sub-score of every board: the largest tile when cell    *)
(* (0,0) holds it, else minus the gap between the largest tile and the     *)
(* corner; so it is negative exactly when the corner does not hold the     *)
(* largest tile.                                                           *)
(***************************************************************************)
C6_CornerScore ==
  \A r \in 1..Len(heap) :
    LET g == heap[r]
        largest == CHOOSE m \in {g[x][y] : x, y \in Idx} :
                     \A x, y \in Idx : g[x][y] <= m
        score == checkMaxTileInCorner(g)
    IN  /\ g[1][1] = largest => score = largest
        /\ g[1][1] # largest => score = -(largest - g[1][1])
        /\ (score >= 0) <=> (g[1][1] = largest)

\* a board whose tiled corner does not hold the largest tile has just been
\* evaluated
C6_Witness ==
  /\ stack # <<>>
  /\ Top.pc = "wait"
  /\ ret # <<>>
  /\ Finite(ret[1].util)
  /\ \E r \in 1..Len(heap) :
       /\ heap[r][1][1] > 0
       /\ heap[r][1][1] < maxTileOf(heap[r])
       /\ ret[1].util = evaluate(heap[r])

(***************************************************************************)
(* C7, as claimed.  Once the elapsed time has reached the budget, a call   *)
(* of maximize or minimize that starts does nothing but signal a timeout.  *)
(***************************************************************************)
AtAnyEntry == pc = "call" /\ stack # <<>> /\ Top.pc = "entry"

C7_EveryCallChecksClock ==
  [][(AtAnyEntry /\ elapsed >= playerMoveTimeLimit /\ stack' # stack)
       => pc' = "except"]_vars

(***************************************************************************)
(* C7, amended.  A call of maximize or minimize on a board that is not     *)
(* terminal (depth left and a legal move) reads the clock before it        *)
(* enumerates moves, ranks cells or clones: once the elapsed time has      *)
(* reached the budget it signals a timeout.  A call on a terminal board    *)
(* (depth 0 or no legal move) evaluates it and returns without reading     *)
(* the clock.                                                              *)
(***************************************************************************)
C7_NonTerminalCallChecksClock ==
  [][(AtAnyEntry /\ elapsed >= playerMoveTimeLimit /\ stack' # stack) =>
       IF Top.depth = 0 \/ ~canMove(heap[Top.g])
       THEN /\ pc' = "call"
            /\ stack' = Pop
            /\ ret' = Returned(evaluate(heap[Top.g]), None)
       ELSE /\ pc' = "except"
            /\ stack' = <<>>
            /\ ret' = <<>>]_vars

\* a call of the chance layer on a board that is not terminal starts when
\* the budget is used up
C7_Witness ==
  /\ AtAnyEntry
  /\ Top.kind = "min"
  /\ elapsed >= playerMoveTimeLimit
  /\ Top.depth > 0
  /\ canMove(heap[Top.g])

(***************************************************************************)
(* C8, as claimed.  Every call of maximize that returns from its loop      *)
(* returns the earliest move among those whose unpruned chance-layer       *)
(* utility is the largest.                                                 *)
(***************************************************************************)
C8_EarliestBestMove ==
  MaxReturning =>
    \A us \in {TrueUtilitiesFrom(1)} :
      Returning.bestMove = Top.kids[EarliestBest(us)][1]

(***************************************************************************)
(* C8, amended.  A call of maximize whose largest unpruned chance-layer    *)
(* utility lies strictly between the alpha and the beta it received (as    *)
(* it does in every call getMove makes, with -inf and +inf) returns the    *)
(* earliest move among those of that utility.                              *)
(***************************************************************************)
C8_EarliestBestMoveInWindow ==
  MaxReturning =>
    \A us \in {TrueUtilitiesFrom(1)} :
      (/\ Less(ReceivedAlpha, us[EarliestBest(us)])
       /\ Less(us[EarliestBest(us)], Top.beta))
        => Returning.bestMove = Top.kids[EarliestBest(us)][1]

\* a call of maximize is about to return from a loop in which a later move
\* has the same unpruned utility as the best one
C8_Witness ==
  /\ MaxReturning
  /\ \E us \in {TrueUtilitiesFrom(1)} :
       /\ Less(ReceivedAlpha, us[EarliestBest(us)])
       /\ Less(us[EarliestBest(us)], Top.beta)
       /\ \E k \in 1..Len(us) :
            /\ k > EarliestBest(us)
            /\ us[k] = us[EarliestBest(us)]

(***************************************************************************)
(* C9.  A call of maximize that returns from its loop (depth >= 1, a       *)
(* legal move, alpha < beta received) returns one of the moves of its      *)
(* board and a finite utility; and once a depth iteration has returned on  *)
(* a board with a legal move, bestMove is a legal move of that board.      *)
(***************************************************************************)
LegalMoves(g) ==
  {getAvailableMoves(g)[k][1] : k \in 1..Len(getAvailableMoves(g))}

C9_ReturnsLegalMove ==
  /\ [][MaxReturns =>
          /\ Top.depth >= 1
          /\ Less(ReceivedAlpha, Top.beta)
          /\ ret'[1].move \in LegalMoves(heap[Top.g])
          /\ Finite(ret'[1].util)]_vars
  /\ []((depth > 1 /\ canMove(inputGrid)) => bestMove \in LegalMoves(inputGrid))

\* a call of maximize below the root returns from its loop with a window
\* narrowed on both sides
C9_Witness ==
  /\ MaxReturning
  /\ Len(stack) > 1
  /\ Finite(ReceivedAlpha)
  /\ Finite(Top.beta)

(***************************************************************************)
(* C10.  getMove terminates when the clock keeps advancing; it starts a    *)
(* depth iteration only while the elapsed time is below the budget, and    *)
(* after a timeout it starts no other and returns bestMove unchanged.      *)
(***************************************************************************)
C10_Terminates ==
  /\ <>(pc = "done")
  /\ [][(pc = "loop" /\ pc' = "call") => elapsed < playerMoveTimeLimit]_vars
  /\ [][pc = "except" => (pc' = "done" /\ bestMove' = bestMove)]_vars
  /\ [][pc = "done" => pc' = "done"]_vars

\* getMove has returned from a board without a legal move, whose
\* iterations all return at once
C10_Witness ==
  /\ pc = "done"
  /\ ~canMove(inputGrid)
  /\ depth > MaxDepth

====
